---- MODULE Spec2Model ----
(***************************************************************************)
(* A model of the link-redirection endpoint: the ASIN extractor, the       *)
(* product resolver (signed PA-API call, HTML scrape) and the request      *)
(* handler, in its two variants:                                           *)
(*   "go"       src/netlify/functions/go.js                                *)
(*   "part_000" src/unnamed/part_000                                       *)
(* Strings the code inspects are sequences of one-character strings.       *)
(***************************************************************************)
EXTENDS Integers, Sequences, FiniteSets, TLC

VARIABLES
  variant,      \* which handler file serves the request
  env,          \* process.env: ACCESS_KEY, SECRET_KEY, PARTNER_TAG
  event,        \* the inbound event: queryStringParameters.url and path
  pc,           \* the handler's position
  asin,         \* the handler's local `asin` (<<>> is null)
  calls,        \* the outbound requests issued so far, in order
  response,     \* the handler's return value
  xurl,         \* extractor harness: the (decoded) URL under test
  xres,         \* extractor harness: the value extractASINFromURL returned
  xdone,        \* extractor harness: whether the function has been applied
  browser       \* the browser that runs the script of the page it was served

vars == <<variant, env, event, pc, asin, calls, response, xurl, xres, xdone, browser>>

handlerVars == <<variant, env, event, pc, asin, calls, response>>
extractVars == <<xurl, xres, xdone>>
pageVars == <<browser>>

\* -------------------------------------------------------------- characters

UpperSeq ==
  <<"A","B","C","D","E","F","G","H","I","J","K","L","M",
    "N","O","P","Q","R","S","T","U","V","W","X","Y","Z">>
LowerSeq ==
  <<"a","b","c","d","e","f","g","h","i","j","k","l","m",
    "n","o","p","q","r","s","t","u","v","w","x","y","z">>
DigitSeq == <<"0","1","2","3","4","5","6","7","8","9">>

Range(s) == {s[i] : i \in DOMAIN s}

UpperSet == Range(UpperSeq)
AsinChars == Range(UpperSeq) \cup Range(LowerSeq) \cup Range(DigitSeq)

\* The lower-case letter of each upper-case letter.
LowerMap ==
  [c \in UpperSet |-> LowerSeq[CHOOSE i \in DOMAIN UpperSeq : UpperSeq[i] = c]]

\* The canonicalisation the /i flag applies to an ASCII character.
ToLower(c) == IF c \in UpperSet THEN LowerMap[c] ELSE c

\* Mutant: a character class that admits every character.
IsAsinChar_Any(c) == TRUE

\* The character class [A-Z0-9] under the /i flag.
IsAsinChar(c) == c \in AsinChars

\* The quantifier {10} of every ASIN pattern, and `pathAsin.length === 10`.
AsinLen == 10

\* /^[A-Z0-9]{10}$/i.test(s)
IsValidAsin(s) == Len(s) = AsinLen /\ \A k \in 1..Len(s) : IsAsinChar(s[k])

\* The least element of a non-empty set of integers.
Min(S) == CHOOSE m \in S : \A n \in S : m <= n

\* The positions at which `lit` occurs in `s`, case-sensitively.
Occurrences(s, lit) ==
  {i \in 1..(Len(s) - Len(lit) + 1) : SubSeq(s, i, i + Len(lit) - 1) = lit}

\* String.prototype.includes
Includes(s, lit) == Occurrences(s, lit) # {}

\* String.prototype.replace(lit, '') with a string pattern: the first
\* occurrence only.
RemoveFirst(s, lit) ==
  IF Includes(s, lit)
    THEN LET i == Min(Occurrences(s, lit))
         IN  SubSeq(s, 1, i - 1) \o SubSeq(s, i + Len(lit), Len(s))
    ELSE s

\* s.split('/')[0]
FirstSegment(s) ==
  IF Includes(s, <<"/">>)
    THEN SubSeq(s, 1, Min(Occurrences(s, <<"/">>)) - 1)
    ELSE s

\* ---------------------------------------------------- extractASINFromURL

shortLinkMappings ==
  << [shortUrl |-> <<"a","m","z","n",".","t","o","/","4","6","8","m","K","V","M">>,
      asin     |-> <<"B","0","9","P","2","1","T","2","G","C">>] >>

\* Mutant: the pattern list without its asin= entry.
patterns_NoAsinParam ==
  << [lit |-> <<"/","d","p","/">>,                                  bounded |-> FALSE],
     [lit |-> <<"/","p","r","o","d","u","c","t","/">>,              bounded |-> FALSE],
     [lit |-> <<"/","g","p","/","p","r","o","d","u","c","t","/">>,  bounded |-> FALSE],
     [lit |-> <<"/">>,                                              bounded |-> TRUE] >>

\* A pattern is its literal prefix, followed by ([A-Z0-9]{10}), followed,
\* when `bounded`, by (?:\/|$|\?). All five carry the /i flag.
patterns ==
  << [lit |-> <<"/","d","p","/">>,                                  bounded |-> FALSE],
     [lit |-> <<"/","p","r","o","d","u","c","t","/">>,              bounded |-> FALSE],
     [lit |-> <<"/","g","p","/","p","r","o","d","u","c","t","/">>,  bounded |-> FALSE],
     [lit |-> <<"a","s","i","n","=">>,                              bounded |-> FALSE],
     [lit |-> <<"/">>,                                              bounded |-> TRUE] >>

\* Whether pattern p matches url with the match starting at position i.
PatternMatchAt(p, url, i) ==
  LET n == Len(p.lit)
      j == i + n + AsinLen
  IN  /\ i + n + AsinLen - 1 <= Len(url)
      /\ \A k \in 1..n : ToLower(url[i + k - 1]) = ToLower(p.lit[k])
      /\ \A k \in 0..(AsinLen - 1) : IsAsinChar(url[i + n + k])
      /\ p.bounded => (j = Len(url) + 1 \/ url[j] \in {"/", "?"})

\* url.match(pattern): the capture group of the leftmost match, <<>> for null.
RegexCapture(p, url) ==
  LET hits == {i \in 1..Len(url) : PatternMatchAt(p, url, i)}
  IN  IF hits = {} THEN <<>>
      ELSE LET i == Min(hits)
           IN  SubSeq(url, i + Len(p.lit), i + Len(p.lit) + AsinLen - 1)

\* The loop over shortLinkMappings, from entry k on.
RECURSIVE ShortLinkFrom(_, _)
ShortLinkFrom(url, k) ==
  IF k > Len(shortLinkMappings) THEN <<>>
  ELSE IF Includes(url, shortLinkMappings[k].shortUrl)
    THEN shortLinkMappings[k].asin
    ELSE ShortLinkFrom(url, k + 1)

\* The loop over patterns, from pattern k on.
RECURSIVE PatternsFrom(_, _)
PatternsFrom(url, k) ==
  IF k > Len(patterns) THEN <<>>
  ELSE LET m == RegexCapture(patterns[k], url)
       IN  IF m # <<>> /\ IsValidAsin(m) THEN m
           ELSE PatternsFrom(url, k + 1)


\* Mutant: the pattern list consulted before the short-link table.
extractASINFromURL_PatternsFirst(url) ==
  LET m == PatternsFrom(url, 1)
  IN  IF m # <<>> THEN m ELSE ShortLinkFrom(url, 1)

extractASINFromURL(url) ==
  LET short == ShortLinkFrom(url, 1)
  IN  IF short # <<>> THEN short ELSE PatternsFrom(url, 1)

\* ----------------------------------------------------- decodeURIComponent

HexSeq == <<"0","1","2","3","4","5","6","7","8","9","a","b","c","d","e","f">>

IsHex(c) == ToLower(c) \in Range(HexSeq)
HexVal(c) == (CHOOSE i \in DOMAIN HexSeq : HexSeq[i] = ToLower(c)) - 1

\* The printable ASCII characters, code 32 to code 126 (code 96 by name).
Ascii ==
  <<" ","!","\"","#","$","%","&","'","(",")","*","+",",","-",".","/",
    "0","1","2","3","4","5","6","7","8","9",":",";","<","=",">","?","@",
    "A","B","C","D","E","F","G","H","I","J","K","L","M",
    "N","O","P","Q","R","S","T","U","V","W","X","Y","Z","[","\\","]","^","_","<backtick>",
    "a","b","c","d","e","f","g","h","i","j","k","l","m",
    "n","o","p","q","r","s","t","u","v","w","x","y","z","{","|","}","~">>

\* The character of an ASCII code; the control characters are one symbol.
AsciiChar(b) == IF b \in 32..126 THEN Ascii[b - 31] ELSE "<ctl>"

\* Whether a well-formed %XX escape starts at position i of s.
EscapeAt(s, i) ==
  /\ i + 2 <= Len(s)
  /\ s[i] = "%"
  /\ IsHex(s[i + 1])
  /\ IsHex(s[i + 2])

ByteAt(s, i) == 16 * HexVal(s[i + 1]) + HexVal(s[i + 2])

\* The number of octets of the UTF-8 sequence a lead byte opens (0: the
\* byte opens none).
Utf8Len(b) ==
  IF b \in 194..223 THEN 2
  ELSE IF b \in 224..239 THEN 3
  ELSE IF b \in 240..244 THEN 4
  ELSE 0

\* The values the k-th continuation octet after lead byte b may take.
Utf8Cont(b, k) ==
  IF k > 1 THEN 128..191
  ELSE IF b = 224 THEN 160..191
  ELSE IF b = 237 THEN 128..159
  ELSE IF b = 240 THEN 144..191
  ELSE IF b = 244 THEN 128..143
  ELSE 128..191

URIError == [ok |-> FALSE, value |-> <<>>]

\* Decode from position i on. Every character outside ASCII decodes to the
\* one symbol "<u>": no pattern of the code tells such characters apart.
RECURSIVE DecodeFrom(_, _)
DecodeFrom(s, i) ==
  IF i > Len(s) THEN [ok |-> TRUE, value |-> <<>>]
  ELSE IF s[i] # "%"
    THEN LET r == DecodeFrom(s, i + 1)
         IN  IF r.ok THEN [ok |-> TRUE, value |-> <<s[i]>> \o r.value] ELSE r
  ELSE IF ~EscapeAt(s, i) THEN URIError
  ELSE LET b == ByteAt(s, i)
           n == Utf8Len(b)
       IN  IF b < 128
             THEN LET r == DecodeFrom(s, i + 3)
                  IN  IF r.ok THEN [ok |-> TRUE, value |-> <<AsciiChar(b)>> \o r.value]
                      ELSE r
           ELSE IF n = 0 THEN URIError
           ELSE IF \A k \in 1..(n - 1) :
                      /\ EscapeAt(s, i + 3 * k)
                      /\ ByteAt(s, i + 3 * k) \in Utf8Cont(b, k)
             THEN LET r == DecodeFrom(s, i + 3 * n)
                  IN  IF r.ok THEN [ok |-> TRUE, value |-> <<"<u>">> \o r.value] ELSE r
           ELSE URIError

\* decodeURIComponent(s): the decoded string, or ok = FALSE where the call
\* throws a URIError.
decodeURIComponent(s) == DecodeFrom(s, 1)

\* ------------------------------------------------ the handler's ASIN rules

\* Mutant: the go.js handler with the route prefix of part_000.
RoutePrefix_GoEverywhere(v) == <<"/","g","o","/">>

\* The text the path rule removes: event.path.replace('/', '') in go.js,
\* event.path.replace('/go/', '') in part_000.
RoutePrefix(v) == IF v = "go" THEN <<"/">> ELSE <<"/","g","o","/">>

\* const pathAsin = event.path.replace(<prefix>, '').split('/')[0]
pathAsin(v, path) == FirstSegment(RemoveFirst(path, RoutePrefix(v)))

\* The handler's ASIN rules: [threw, asin]; asin = <<>> is null.
ExtractStep(v, ev) ==
  IF ev.url # <<>>
    THEN LET d == decodeURIComponent(ev.url)
         IN  IF d.ok THEN [threw |-> FALSE, asin |-> extractASINFromURL(d.value)]
             ELSE [threw |-> TRUE, asin |-> <<>>]
    ELSE LET p == pathAsin(v, ev.path)
         IN  [threw |-> FALSE,
              asin  |-> IF p # <<>> /\ Len(p) = AsinLen /\ IsValidAsin(p) THEN p ELSE <<>>]

\* ------------------------------------------------------- product records

NoRecord == [title |-> <<>>, image |-> <<>>, price |-> <<>>, asin |-> <<>>]

\* `Amazon Product ${asin}`
GenericTitle(a) ==
  <<"A","m","a","z","o","n"," ","P","r","o","d","u","c","t"," ">> \o a

ImageBase ==
  <<"h","t","t","p","s",":","/","/","i","m","a","g","e","s","-","n","a",".",
    "s","s","l","-","i","m","a","g","e","s","-","a","m","a","z","o","n",".",
    "c","o","m","/","i","m","a","g","e","s","/","P","/">>

\* The ASIN-derived image URL: ...01._SL1500_.jpg in go.js,
\* ...01._SX300_QL70_.jpg in part_000's fetchAmazonProduct.
FallbackImage(v, a) ==
  ImageBase \o a \o
    (IF v = "go"
       THEN <<".","0","1",".","_","S","L","1","5","0","0","_",".","j","p","g">>
       ELSE <<".","0","1",".","_","S","X","3","0","0","_","Q","L","7","0","_",".","j","p","g">>)

\* generateFallbackHTML's fallbackImage: the _SL1500_ URL in go.js, the
\* _SX300_QL70_ URL in part_000.
FallbackPageImage(v, a) == FallbackImage(v, a)

\* The record every give-up path of go.js resolves with.
FallbackRecord(v, a) ==
  [title |-> GenericTitle(a), image |-> FallbackImage(v, a), price |-> <<>>, asin |-> a]

\* Mutant: the left operand alone, the fall-back value forgotten.
OrElse_NoDefault(x, y) == x

\* `x || y` on strings.
OrElse(x, y) == IF x # <<>> THEN x ELSE y

\* String.prototype.trim, for the space character.
RECURSIVE TrimLeft(_)
TrimLeft(s) == IF s # <<>> /\ Head(s) = " " THEN TrimLeft(Tail(s)) ELSE s
RECURSIVE TrimRight(_)
TrimRight(s) ==
  IF s # <<>> /\ s[Len(s)] = " " THEN TrimRight(SubSeq(s, 1, Len(s) - 1)) ELSE s
Trim(s) == TrimLeft(TrimRight(s))

\* .replace(/\s+/g, ' '), for the space character.
RECURSIVE CollapseSpaces(_)
CollapseSpaces(s) ==
  IF Len(s) < 2 THEN s
  ELSE IF s[1] = " " /\ s[2] = " " THEN CollapseSpaces(Tail(s))
  ELSE <<s[1]>> \o CollapseSpaces(Tail(s))

\* .replace(/\s*<sep>\s*Amazon\.com$/, ''), for the space character.
StripSiteSuffix(s, sep) ==
  LET site == <<"A","m","a","z","o","n",".","c","o","m">>
      n    == Len(s) - Len(site)
  IN  IF n >= 0 /\ SubSeq(s, n + 1, Len(s)) = site
        THEN LET a == TrimRight(SubSeq(s, 1, n))
             IN  IF a # <<>> /\ a[Len(a)] = sep
                   THEN TrimRight(SubSeq(a, 1, Len(a) - 1))
                   ELSE s
        ELSE s

\* The title clean-up of go.js.
CleanTitle(t) == Trim(StripSiteSuffix(StripSiteSuffix(CollapseSpaces(t), "-"), "|"))

\* --------------------------------------------- image-size suffix rewriting

\* A rewriting rule /<pre><cls>{min,}<post>/g -> rep. No rule carries the
\* /i flag, and no rule's <post> starts with a character of its <cls>.
SizeClass == UpperSet \cup Range(DigitSeq) \cup {",", "_"}
Digits == Range(DigitSeq)
HiRes == <<"1","5","0","0","_">>

imageRules ==
  << [pre |-> <<".","_">>, cls |-> SizeClass, min |-> 0, post |-> <<".">>,
      rep |-> <<".","_","A","C","_","S","L">> \o HiRes \o <<".">>],
     [pre |-> <<".","_","S","X">>, cls |-> Digits, min |-> 1, post |-> <<"_">>,
      rep |-> <<".","_","S","X">> \o HiRes],
     [pre |-> <<".","_","S","Y">>, cls |-> Digits, min |-> 1, post |-> <<"_">>,
      rep |-> <<".","_","S","Y">> \o HiRes],
     [pre |-> <<".","_","A","C","_","U","L">>, cls |-> Digits, min |-> 1, post |-> <<"_">>,
      rep |-> <<".","_","A","C","_","U","L">> \o HiRes],
     [pre |-> <<".","_","A","C","_","U","Y">>, cls |-> Digits, min |-> 1, post |-> <<"_">>,
      rep |-> <<".","_","A","C","_","U","Y">> \o HiRes],
     [pre |-> <<".","_","S","S">>, cls |-> Digits, min |-> 1, post |-> <<"_">>,
      rep |-> <<".","_","S","L">> \o HiRes],
     [pre |-> <<",">>, cls |-> Digits, min |-> 1, post |-> <<"_">>,
      rep |-> <<"_">>] >>

\* The length of the run of characters of cls that starts at position i.
RECURSIVE RunLen(_, _, _)
RunLen(s, i, cls) ==
  IF i <= Len(s) /\ s[i] \in cls THEN 1 + RunLen(s, i + 1, cls) ELSE 0

LitAt(s, i, lit) == i + Len(lit) - 1 <= Len(s) /\ SubSeq(s, i, i + Len(lit) - 1) = lit

\* The length of rule r's match at position i of s, 0 when it does not match.
RuleMatchLen(r, s, i) ==
  IF ~LitAt(s, i, r.pre) THEN 0
  ELSE LET n == RunLen(s, i + Len(r.pre), r.cls)
       IN  IF n >= r.min /\ LitAt(s, i + Len(r.pre) + n, r.post)
             THEN Len(r.pre) + n + Len(r.post)
             ELSE 0

\* s.replace(rule, rep) with the g flag, from position i on.
RECURSIVE ReplaceAll(_, _, _)
ReplaceAll(r, s, i) ==
  IF i > Len(s) THEN <<>>
  ELSE LET n == RuleMatchLen(r, s, i)
       IN  IF n > 0 THEN r.rep \o ReplaceAll(r, s, i + n)
           ELSE <<s[i]>> \o ReplaceAll(r, s, i + 1)

\* The chain of replace calls, from rule k on.
RECURSIVE RewriteFrom(_, _)
RewriteFrom(s, k) ==
  IF k > Len(imageRules) THEN s
  ELSE RewriteFrom(ReplaceAll(imageRules[k], s, 1), k + 1)

ImagesHost ==
  <<"i","m","a","g","e","s","-","n","a",".","s","s","l","-","i","m","a","g","e","s","-",
    "a","m","a","z","o","n",".","c","o","m">>
MediaHost == <<"m",".","m","e","d","i","a","-","a","m","a","z","o","n",".","c","o","m">>

\* ------------------------------------------------- the dynamic-image blob

\* JavaScript values of the size computation: a number, NaN, undefined.
Num(n) == [type |-> "number", n |-> n]
NaN == [type |-> "NaN", n |-> 0]
Undefined == [type |-> "undefined", n |-> 0]

\* The value of the digits s[i..i+n-1] in the given base.
RECURSIVE DigitsValue(_, _, _, _)
DigitsValue(s, i, n, base) ==
  IF n = 0 THEN 0
  ELSE DigitsValue(s, i, n - 1, base) * base + HexVal(s[i + n - 1])

\* parseInt(s) on a string without leading white space or sign: the hex
\* digits after a 0x prefix, else the leading decimal digits, NaN when
\* there are none.
parseInt(s) ==
  IF Len(s) >= 2 /\ s[1] = "0" /\ s[2] \in {"x", "X"}
    THEN LET n == RunLen(s, 3, {c \in AsinChars : IsHex(c)})
         IN  IF n = 0 THEN NaN ELSE Num(DigitsValue(s, 3, n, 16))
    ELSE LET n == RunLen(s, 1, Digits)
         IN  IF n = 0 THEN NaN ELSE Num(DigitsValue(s, 1, n, 10))

\* a.match(/_SX(\d+)_/): <<match[0], match[1]>>, <<>> for null.
MatchSX(a) ==
  LET hits == {i \in 1..Len(a) :
                 /\ LitAt(a, i, <<"_","S","X">>)
                 /\ RunLen(a, i + 3, Digits) >= 1
                 /\ LitAt(a, i + 3 + RunLen(a, i + 3, Digits), <<"_">>)}
  IN  IF hits = {} THEN <<>>
      ELSE LET i == Min(hits)
               n == RunLen(a, i + 3, Digits)
           IN  << SubSeq(a, i, i + 3 + n), SubSeq(a, i + 3, i + 2 + n) >>

\* a.match(/(\d+)x\d+/): <<match[0], match[1]>>, <<>> for null.
MatchWxH(a) ==
  LET hits == {i \in 1..Len(a) :
                 /\ RunLen(a, i, Digits) >= 1
                 /\ LitAt(a, i + RunLen(a, i, Digits), <<"x">>)
                 /\ RunLen(a, i + RunLen(a, i, Digits) + 1, Digits) >= 1}
  IN  IF hits = {} THEN <<>>
      ELSE LET i == Min(hits)
               n == RunLen(a, i, Digits)
               m == RunLen(a, i + n + 1, Digits)
           IN  << SubSeq(a, i, i + n + m), SubSeq(a, i, i + n - 1) >>

\* String(array): the elements joined by commas.
ArrayToString(m) == m[1] \o <<",">> \o m[2]

\* x[k] on a number primitive: a number has no indexed properties.
NumberMember(x, k) == Undefined

\* `x || d` where d is a number: undefined, NaN and 0 are falsy.
OrNumber(x, d) == IF x.type = "number" /\ x.n # 0 THEN x.n ELSE d

\* parseInt(a.match(/_SX(\d+)_/) || a.match(/(\d+)x\d+/) || [0, 0])[1] || 0
\* parseInt receives the array, and [1] indexes the number it returns.
SizeOf(a) ==
  LET m == IF MatchSX(a) # <<>> THEN MatchSX(a)
           ELSE IF MatchWxH(a) # <<>> THEN MatchWxH(a)
           ELSE << <<"0">>, <<"0">> >>
  IN  OrNumber(NumberMember(parseInt(ArrayToString(m)), 1), 0)

\* The comparator (a, b) => bSize - aSize.
CompareSize(a, b) == SizeOf(b) - SizeOf(a)

\* Array.prototype.sort is stable: x is placed after the elements it does
\* not precede under the comparator.
RECURSIVE InsertSorted(_, _)
InsertSorted(x, s) ==
  IF s = <<>> THEN <<x>>
  ELSE IF CompareSize(x, Head(s)) < 0 THEN <<x>> \o s
  ELSE <<Head(s)>> \o InsertSorted(x, Tail(s))

RECURSIVE SortFrom(_, _, _)
SortFrom(keys, k, acc) ==
  IF k > Len(keys) THEN acc
  ELSE SortFrom(keys, k + 1, InsertSorted(keys[k], acc))

\* imageUrls.sort(...)[0]: the URL taken from the blob's keys.
DynamicChoice(keys) == SortFrom(keys, 1, <<>>)[1]

\* The text of a data-a-dynamic-image attribute with the given keys, in
\* their order: {"<url>":[1,1],"<url>":[1,1]}.
RECURSIVE BlobEntries(_, _)
BlobEntries(keys, k) ==
  IF k > Len(keys) THEN <<>>
  ELSE (IF k > 1 THEN <<",">> ELSE <<>>)
         \o <<"\"">> \o keys[k] \o <<"\"",":","[","1",",","1","]">>
         \o BlobEntries(keys, k + 1)

DynamicBlob(keys) == <<"{">> \o BlobEntries(keys, 1) \o <<"}">>

\* element.getAttribute('src') || element.getAttribute('data-a-dynamic-image')
\* on #landingImage (go.js reads data-old-hires first and data-src last,
\* part_000 data-old-hires second; the pages under test carry neither).
RawImage(body) ==
  IF ~body.landingImage.present THEN <<>>
  ELSE OrElse(body.landingImage.text,
              IF body.dynamicImage # <<>> THEN DynamicBlob(body.dynamicImage) ELSE <<>>)

\* The image step of go.js on the attribute value of the first element an
\* image selector finds: values on neither Amazon host are passed over, a
\* value that starts with '{' is parsed as JSON and `keys` are its keys.
ImageOfGo(raw, keys) ==
  IF raw # <<>> /\ (Includes(raw, ImagesHost) \/ Includes(raw, MediaHost))
    THEN LET image == IF Head(raw) = "{" THEN DynamicChoice(keys) ELSE raw
         IN  IF Includes(image, <<"a","m","a","z","o","n",".","c","o","m">>)
                \/ Includes(image, <<"s","s","l","-","i","m","a","g","e","s","-","a","m","a","z","o","n">>)
               THEN RewriteFrom(image, 1)
               ELSE image
    ELSE <<>>

\* ------------------------------------------------------ upstream responses

El(text) == [present |-> TRUE, text |-> text]
NoEl == [present |-> FALSE, text |-> <<>>]

Widget == <<"W","i","d","g","e","t">>
RobotCheckText == <<"R","o","b","o","t"," ","C","h","e","c","k">>

\* The keys of a data-a-dynamic-image blob: one image at two sizes.
SmallKey ==
  <<"h","t","t","p","s",":","/","/","m",".","m","e","d","i","a","-","a","m","a","z",
    "o","n",".","c","o","m","/","i","m","a","g","e","s","/","I","/","7","1","a","b",
    "c",".","_","A","C","_","S","X","3","0","0","_",".","j","p","g">>
LargeKey ==
  <<"h","t","t","p","s",":","/","/","m",".","m","e","d","i","a","-","a","m","a","z",
    "o","n",".","c","o","m","/","i","m","a","g","e","s","/","I","/","7","1","a","b",
    "c",".","_","A","C","_","S","X","1","5","0","0","_",".","j","p","g">>

\* The product pages www.amazon.com may answer a scrape with. A body is
\* what the code reads from it: whether data.length < 1000, whether data
\* includes 'Robot Check' or 'blocked', whether parse(data) throws, and the
\* elements the selectors find: #productTitle, the first h1, #landingImage
\* (its src attribute, and the keys of its data-a-dynamic-image attribute,
\* which is valid JSON when present) and .a-price .a-offscreen.
ScrapeBodies ==
  { [id |-> "product", short |-> FALSE, robotCheck |-> FALSE, blocked |-> FALSE,
     parseThrows |-> FALSE,
     productTitle |-> El(Widget \o <<" ","-"," ","A","m","a","z","o","n",".","c","o","m">>),
     h1 |-> El(Widget),
     landingImage |-> El(<<"h","t","t","p","s",":","/","/","m",".","m","e","d","i","a","-",
                           "a","m","a","z","o","n",".","c","o","m","/","i","m","a","g","e","s",
                           "/","I","/","7","1","a","b","c",".","_","A","C","_","S","X","3","0",
                           "0","_",".","j","p","g">>),
     offscreen |-> El(<<"$","1","9",".","9","9">>), dynamicImage |-> <<>>],
    [id |-> "bare", short |-> FALSE, robotCheck |-> FALSE, blocked |-> FALSE,
     parseThrows |-> FALSE,
     productTitle |-> NoEl, h1 |-> NoEl, landingImage |-> NoEl, offscreen |-> NoEl,
     dynamicImage |-> <<>>],
    [id |-> "foreign", short |-> FALSE, robotCheck |-> FALSE, blocked |-> FALSE,
     parseThrows |-> FALSE,
     productTitle |-> El(<<>>), h1 |-> El(Widget),
     landingImage |-> El(<<"h","t","t","p","s",":","/","/","e","x","a","m","p","l","e",".",
                           "o","r","g","/","l","o","g","o",".","p","n","g">>),
     offscreen |-> El(<<"1","9",".","9","9">>), dynamicImage |-> <<>>],
    [id |-> "robot", short |-> FALSE, robotCheck |-> TRUE, blocked |-> FALSE,
     parseThrows |-> FALSE,
     productTitle |-> NoEl, h1 |-> El(RobotCheckText), landingImage |-> NoEl,
     offscreen |-> NoEl, dynamicImage |-> <<>>],
    [id |-> "short", short |-> TRUE, robotCheck |-> FALSE, blocked |-> FALSE,
     parseThrows |-> FALSE,
     productTitle |-> NoEl, h1 |-> El(<<"S","o","r","r","y">>), landingImage |-> NoEl,
     offscreen |-> NoEl, dynamicImage |-> <<>>],
    [id |-> "tiny", short |-> TRUE, robotCheck |-> FALSE, blocked |-> FALSE,
     parseThrows |-> FALSE,
     productTitle |-> El(Widget), h1 |-> NoEl,
     landingImage |-> El(<<"h","t","t","p","s",":","/","/","m",".","m","e","d","i","a","-",
                           "a","m","a","z","o","n",".","c","o","m","/","i","m","a","g","e","s",
                           "/","I","/","7","1","a","b","c",".","j","p","g">>),
     offscreen |-> NoEl, dynamicImage |-> <<>>],
    [id |-> "unparsable", short |-> FALSE, robotCheck |-> FALSE, blocked |-> FALSE,
     parseThrows |-> TRUE,
     productTitle |-> NoEl, h1 |-> NoEl, landingImage |-> NoEl, offscreen |-> NoEl,
     dynamicImage |-> <<>>],
    [id |-> "dynamic", short |-> FALSE, robotCheck |-> FALSE, blocked |-> FALSE,
     parseThrows |-> FALSE,
     productTitle |-> El(Widget), h1 |-> NoEl, landingImage |-> El(<<>>),
     offscreen |-> NoEl, dynamicImage |-> <<SmallKey, LargeKey>>],
    [id |-> "dynamicReversed", short |-> FALSE, robotCheck |-> FALSE, blocked |-> FALSE,
     parseThrows |-> FALSE,
     productTitle |-> El(Widget), h1 |-> NoEl, landingImage |-> El(<<>>),
     offscreen |-> NoEl, dynamicImage |-> <<LargeKey, SmallKey>>] }

NoItem == [present |-> FALSE, title |-> <<>>, image |-> <<>>, price |-> <<>>]

\* The answers webservices.amazon.com may give. A response is what the
\* code reads from it: res.statusCode, whether JSON.parse(data) returns,
\* response.Errors.length, whether Output.__type includes 'InternalFailure',
\* and of ItemsResult.Items[0] the title, the first of the Large, Medium and
\* Small image URLs, and the first listing's display amount.
ApiResponses ==
  { [id |-> "item", statusCode |-> 200, json |-> TRUE, errors |-> 0,
     internalFailure |-> FALSE,
     item |-> [present |-> TRUE, title |-> <<"G","a","d","g","e","t">>,
               image |-> <<"h","t","t","p","s",":","/","/","m",".","m","e","d","i","a","-",
                           "a","m","a","z","o","n",".","c","o","m","/","i","m","a","g","e","s",
                           "/","I","/","8","1","x","y","z",".","_","S","L","1","5","0","0","_",
                           ".","j","p","g">>,
               price |-> <<"$","2","4",".","5","0">>]],
    [id |-> "noItems", statusCode |-> 200, json |-> TRUE, errors |-> 0,
     internalFailure |-> FALSE, item |-> NoItem],
    [id |-> "itemNoData", statusCode |-> 200, json |-> TRUE, errors |-> 0,
     internalFailure |-> FALSE,
     item |-> [present |-> TRUE, title |-> <<>>, image |-> <<>>, price |-> <<>>]],
    [id |-> "errors200", statusCode |-> 200, json |-> TRUE, errors |-> 1,
     internalFailure |-> FALSE, item |-> NoItem],
    [id |-> "errors429", statusCode |-> 429, json |-> TRUE, errors |-> 1,
     internalFailure |-> FALSE, item |-> NoItem],
    [id |-> "internalFailure", statusCode |-> 500, json |-> TRUE, errors |-> 0,
     internalFailure |-> TRUE, item |-> NoItem],
    [id |-> "html503", statusCode |-> 503, json |-> FALSE, errors |-> 0,
     internalFailure |-> FALSE, item |-> NoItem],
    [id |-> "json403", statusCode |-> 403, json |-> TRUE, errors |-> 0,
     internalFailure |-> FALSE, item |-> NoItem] }

\* ------------------------------------------------------------ the resolver

Resolved(rec) == [state |-> "resolved", value |-> rec]
Rejected == [state |-> "rejected", value |-> NoRecord]

parsePAAPI5Response(resp, a) ==
  [title |-> OrElse(IF resp.item.present THEN resp.item.title ELSE <<>>, GenericTitle(a)),
   image |-> OrElse(IF resp.item.present THEN resp.item.image ELSE <<>>,
                    FallbackImage("go", a)),
   price |-> IF resp.item.present THEN resp.item.price ELSE <<>>,
   asin  |-> a]

\* Mutant: an 'end' callback that also rejects an answer without items.
ApiOnEnd_RejectsNoItems(resp, a) ==
  IF ~resp.json THEN Rejected
  ELSE IF resp.errors > 0 THEN Rejected
  ELSE IF resp.internalFailure THEN Rejected
  ELSE IF ~resp.item.present THEN Rejected
  ELSE Resolved(parsePAAPI5Response(resp, a))

\* fetchAmazonProductAPI's res.on('end') callback: what it settles the
\* promise with.
ApiOnEnd(resp, a) ==
  IF ~resp.json THEN Rejected
  ELSE IF resp.errors > 0 THEN Rejected
  ELSE IF resp.internalFailure THEN Rejected
  ELSE Resolved(parsePAAPI5Response(resp, a))

\* Mutant: the block markers alone, the length test dropped.
IsBlockPage_MarkersOnly(body) == body.robotCheck \/ body.blocked

\* Whether go.js takes the body for a block page.
IsBlockPage(body) == body.robotCheck \/ body.blocked \/ body.short

\* fetchAmazonProductScraping's res.on('end') callback (go.js).
ScrapingOnEnd(body, a) ==
  IF IsBlockPage(body) THEN Resolved(FallbackRecord("go", a))
  ELSE IF body.parseThrows THEN Resolved(FallbackRecord("go", a))
  ELSE LET title == IF body.productTitle.present /\ Trim(body.productTitle.text) # <<>>
                      THEN CleanTitle(Trim(body.productTitle.text))
                      ELSE <<>>
           image == ImageOfGo(RawImage(body), body.dynamicImage)
           price == IF body.offscreen.present /\ Includes(body.offscreen.text, <<"$">>)
                      THEN Trim(body.offscreen.text)
                      ELSE <<>>
       IN  Resolved([title |-> OrElse(title, GenericTitle(a)),
                     image |-> OrElse(image, FallbackImage("go", a)),
                     price |-> price,
                     asin  |-> a])

\* fetchAmazonProduct's res.on('end') callback (part_000).
FetchOnEnd(body, a) ==
  IF body.parseThrows THEN Rejected
  ELSE LET title == IF body.productTitle.present THEN Trim(body.productTitle.text)
                    ELSE IF body.h1.present THEN Trim(body.h1.text)
                    ELSE <<>>
           image == RawImage(body)
           price == IF body.offscreen.present THEN Trim(body.offscreen.text) ELSE <<>>
       IN  Resolved([title |-> OrElse(title, GenericTitle(a)),
                     image |-> OrElse(image, FallbackImage("part_000", a)),
                     price |-> price,
                     asin  |-> a])

\* The res.on('end') callback of a call of the given kind.
OnEnd(v, kind, body, a) ==
  IF kind = "api" THEN ApiOnEnd(body, a)
  ELSE IF v = "go" THEN ScrapingOnEnd(body, a)
  ELSE FetchOnEnd(body, a)

\* req.on('error'): reject(error), in all three functions.
OnError == Rejected

\* req.setTimeout(ms, ...): req.abort(), then reject(new Error(...)).
OnTimeout == Rejected

\* --------------------------------------------------------------- rendering

DefaultTag == <<"o","n","e","l","a","s","t","l","y","n","x","-","2","0">>

\* const PARTNER_TAG = process.env.PARTNER_TAG || 'onelastlynx-20' in go.js;
\* part_000 writes the tag into the link.
PARTNER_TAG(v, e) == IF v = "go" THEN OrElse(e.PARTNER_TAG, DefaultTag) ELSE DefaultTag

\* Mutant: the link written with the ASIN in lower case.
affiliateUrl_LowerCased(a, tag) ==
  <<"h","t","t","p","s",":","/","/","w","w","w",".","a","m","a","z","o","n",".",
    "c","o","m","/","d","p","/">> \o [k \in DOMAIN a |-> ToLower(a[k])]
    \o <<"?","t","a","g","=">> \o tag

\* `https://www.amazon.com/dp/${asin}?tag=${PARTNER_TAG}`
affiliateUrl(a, tag) ==
  <<"h","t","t","p","s",":","/","/","w","w","w",".","a","m","a","z","o","n",".",
    "c","o","m","/","d","p","/">> \o a \o <<"?","t","a","g","=">> \o tag

\* A page is what the browser shows and runs: the record's fields, the
\* button's href, the address the script navigates to, the number the
\* countdown element shows at load and the value the script's `countdown`
\* variable starts from (0 where the page has no countdown).
NoPage ==
  [kind |-> "none", title |-> <<>>, image |-> <<>>, price |-> <<>>, link |-> <<>>,
   redirect |-> <<>>, shown |-> 0, countdown |-> 0]

\* generateErrorHTML(), and the inline 404 body of part_000.
generateErrorHTML == [NoPage EXCEPT !.kind = "error"]

\* generateHTML(productData, asin): the record's fields as the page shows
\* them, the button's href, the address the script navigates to, the '3'
\* of the countdown element and `let countdown = 999` (go.js), `= 3`
\* (part_000).
generateHTML(v, e, productData, a) ==
  [kind |-> "product", title |-> productData.title, image |-> productData.image,
   price |-> productData.price,
   link |-> affiliateUrl(a, PARTNER_TAG(v, e)),
   redirect |-> affiliateUrl(a, PARTNER_TAG(v, e)),
   shown |-> 3,
   countdown |-> IF v = "go" THEN 999 ELSE 3]

\* Mutant: a fallback page whose script navigates to the untagged address.
generateFallbackHTML_UntaggedRedirect(v, e, a) ==
  [kind |-> "fallback",
   title |-> <<"A","m","a","z","i","n","g"," ","A","m","a","z","o","n"," ","D","e","a","l">>,
   image |-> FallbackPageImage(v, a),
   price |-> <<>>,
   link |-> affiliateUrl(a, PARTNER_TAG(v, e)),
   redirect |-> affiliateUrl(a, <<>>), shown |-> 0, countdown |-> 0]

\* generateFallbackHTML(asin)
generateFallbackHTML(v, e, a) ==
  [kind |-> "fallback",
   title |-> <<"A","m","a","z","i","n","g"," ","A","m","a","z","o","n"," ","D","e","a","l">>,
   image |-> FallbackPageImage(v, a),
   price |-> <<>>,
   link |-> affiliateUrl(a, PARTNER_TAG(v, e)),
   redirect |-> affiliateUrl(a, PARTNER_TAG(v, e)), shown |-> 0, countdown |-> 0]

NoResponse == [statusCode |-> 0, contentType |-> "", body |-> NoPage]

\* Mutant: every page served with status 200.
Respond_AlwaysOk(status, page) ==
  [statusCode |-> 200, contentType |-> "text/html", body |-> page]

\* return { statusCode, headers: { 'Content-Type': 'text/html' }, body }
Respond(status, page) ==
  [statusCode |-> status, contentType |-> "text/html", body |-> page]

\* ------------------------------------------------------ the request handler

\* The values of event.queryStringParameters.url the requests carry; <<>>
\* is an absent (or empty) parameter.
UrlParams ==
  { <<>>,
    <<"h","t","t","p","s",":","/","/","a","m","a","z","o","n",".","c","o","m","/","d","p","/",
      "B","0","9","P","2","1","T","2","G","C","/","r","e","f","=","x","y","z">>,
    <<"h","t","t","p","s","%","3","A","%","2","F","%","2","F","a","m","a","z","o","n",".",
      "c","o","m","%","2","F","g","p","%","2","F","p","r","o","d","u","c","t","%","2","F",
      "b","0","0","0","x","y","z","1","2","3">>,
    <<"h","t","t","p","s",":","/","/","a","m","z","n",".","t","o","/","4","6","8","m","K",
      "V","M","?","u","=","/","d","p","/","b","0","0","0","x","y","z","1","2","3">>,
    <<"h","t","t","p","s",":","/","/","a","m","a","z","o","n",".","c","o","m","/","d","e",
      "a","l","s">>,
    <<"1","0","0","%">>,
    <<"%","E","0","%","A","4","%","A">> }

\* The values of event.path the requests carry.
Paths ==
  { <<"/","g","o","/","B","0","9","P","2","1","T","2","G","C">>,
    <<"/","B","0","9","P","2","1","T","2","G","C">>,
    <<"/","b","0","0","0","x","y","z","1","2","3","/","e","x","t","r","a">>,
    <<"/","g","o","/","B","0","9","P","2","1","T","2","G">>,
    <<"/","0","1","2","3","4","5","6","7","8","9">>,
    <<"/">> }

\* The inbound events: every path without a url parameter, and every url
\* parameter on the two paths that name an ASIN directly.
Events ==
  [url : {<<>>}, path : Paths]
    \cup [url : UrlParams \ {<<>>},
          path : { <<"/","g","o","/","B","0","9","P","2","1","T","2","G","C">>,
                   <<"/","B","0","9","P","2","1","T","2","G","C">> }]

\* The browser before it has loaded a page: no script runs, no text is
\* shown, and it has navigated nowhere.
NoBrowser ==
  [loaded |-> FALSE, countdown |-> 0, text |-> 0, timer |-> FALSE, elapsed |-> 0,
   callback |-> FALSE, fallback |-> FALSE, location |-> <<>>]

\* The values an environment variable holds; "" is an unset variable.
KeyValues == {"", "set"}
TagValues == {<<>>, <<"m","y","t","a","g","-","2","1">>}

NewCall(kind) ==
  [kind |-> kind, promise |-> "pending", value |-> NoRecord, received |-> <<>>,
   endFired |-> FALSE, errorFired |-> FALSE, timeoutFired |-> FALSE, aborted |-> FALSE]

\* Mutant: a promise that every resolve(...) and reject(...) settles anew.
Settle_LastWins(c, outcome) ==
  [c EXCEPT !.promise = outcome.state, !.value = outcome.value]

\* resolve(...) and reject(...) of a promise: only the first call settles it.
Settle(c, outcome) ==
  IF c.promise = "pending"
    THEN [c EXCEPT !.promise = outcome.state, !.value = outcome.value]
    ELSE c

\* The call the handler is waiting on.
Awaited == calls[Len(calls)]

\* part_000 reads no environment variable: its requests run with none set.
Init ==
  /\ variant \in {"go", "part_000"}
  /\ env \in [ACCESS_KEY : KeyValues, SECRET_KEY : KeyValues, PARTNER_TAG : TagValues]
  /\ variant = "part_000" => env = [ACCESS_KEY |-> "", SECRET_KEY |-> "", PARTNER_TAG |-> <<>>]
  /\ event \in Events
  /\ pc = "start"
  /\ asin = <<>>
  /\ calls = <<>>
  /\ response = NoResponse
  /\ xurl = <<>>
  /\ xres = <<>>
  /\ xdone = FALSE
  /\ browser = NoBrowser

\* Mutant: the test of the access key alone.
NoCredentials_AccessKeyOnly(e) == e.ACCESS_KEY = ""

\* Whether go.js skips the PA-API: !ACCESS_KEY || !SECRET_KEY.
NoCredentials(e) == e.ACCESS_KEY = "" \/ e.SECRET_KEY = ""

\* exports.handler up to its first await or return: the ASIN rules, the 404
\* answer, and the first outbound request.
HandlerStart ==
  /\ pc = "start"
  /\ LET x == ExtractStep(variant, event)
     IN  IF x.threw
           THEN /\ pc' = "threw"
                /\ UNCHANGED <<asin, calls, response>>
         ELSE IF x.asin = <<>>
           THEN /\ pc' = "done"
                /\ asin' = x.asin
                /\ response' = Respond(404, generateErrorHTML)
                /\ UNCHANGED calls
         ELSE /\ asin' = x.asin
              /\ UNCHANGED response
              /\ IF variant = "part_000"
                   THEN pc' = "await_fetch" /\ calls' = Append(calls, NewCall("scrape"))
                 ELSE IF NoCredentials(env)
                   THEN pc' = "await_scraping" /\ calls' = Append(calls, NewCall("scrape"))
                 ELSE pc' = "await_api" /\ calls' = Append(calls, NewCall("api"))
  /\ UNCHANGED <<variant, env, event, extractVars, pageVars>>

\* Mutant: a catch block that answers every rejection in go.js, that of its
\* own scrape included, with one more scrape.
HandlerResume_CatchAgain ==
  /\ pc \in {"await_fetch", "await_scraping", "await_api", "await_fallback"}
  /\ Awaited.promise # "pending"
  /\ IF Awaited.promise = "resolved"
       THEN /\ response' = Respond(200, generateHTML(variant, env, Awaited.value, asin))
            /\ pc' = "done"
            /\ UNCHANGED calls
     ELSE IF pc \in {"await_scraping", "await_api", "await_fallback"}
       THEN /\ calls' = Append(calls, NewCall("scrape"))
            /\ pc' = "await_fallback"
            /\ UNCHANGED response
     ELSE /\ response' = Respond(200, generateFallbackHTML(variant, env, asin))
          /\ pc' = "done"
          /\ UNCHANGED calls
  /\ UNCHANGED <<variant, env, event, asin, extractVars, pageVars>>

\* The handler after the awaited promise has settled, up to its next await
\* or its return.
HandlerResume ==
  /\ pc \in {"await_fetch", "await_scraping", "await_api", "await_fallback"}
  /\ Awaited.promise # "pending"
  /\ IF Awaited.promise = "resolved"
       THEN /\ response' = Respond(200, generateHTML(variant, env, Awaited.value, asin))
            /\ pc' = "done"
            /\ UNCHANGED calls
     ELSE IF pc \in {"await_scraping", "await_api"}
       THEN \* catch (error): 'API failed, attempting scraping fallback'
            /\ calls' = Append(calls, NewCall("scrape"))
            /\ pc' = "await_fallback"
            /\ UNCHANGED response
     ELSE \* the inner catch of go.js, the catch of part_000
          /\ response' = Respond(200, generateFallbackHTML(variant, env, asin))
          /\ pc' = "done"
          /\ UNCHANGED calls
  /\ UNCHANGED <<variant, env, event, asin, extractVars, pageVars>>

\* The response of call i ends with the given body: res.on('end', ...).
ResEnd(i, body) ==
  /\ ~calls[i].endFired
  /\ ~calls[i].errorFired
  /\ calls' = [calls EXCEPT ![i] =
                 Settle([@ EXCEPT !.endFired = TRUE, !.received = <<body>>],
                        OnEnd(variant, @.kind, body, asin))]
  /\ UNCHANGED <<variant, env, event, pc, asin, response, extractVars, pageVars>>

\* The request of call i fails: req.on('error', ...).
ReqError(i) ==
  /\ ~calls[i].endFired
  /\ ~calls[i].errorFired
  /\ calls' = [calls EXCEPT ![i] = Settle([@ EXCEPT !.errorFired = TRUE], OnError)]
  /\ UNCHANGED <<variant, env, event, pc, asin, response, extractVars, pageVars>>

\* Mutant: a timeout callback that rejects without req.abort().
ReqTimeout_NoAbort(i) ==
  /\ ~calls[i].endFired
  /\ ~calls[i].errorFired
  /\ ~calls[i].timeoutFired
  /\ calls' = [calls EXCEPT ![i] = Settle([@ EXCEPT !.timeoutFired = TRUE], OnTimeout)]
  /\ UNCHANGED <<variant, env, event, pc, asin, response, extractVars, pageVars>>

\* The timeout of call i fires: req.setTimeout(ms, ...).
ReqTimeout(i) ==
  /\ ~calls[i].endFired
  /\ ~calls[i].errorFired
  /\ ~calls[i].timeoutFired
  /\ calls' = [calls EXCEPT ![i] =
                 Settle([@ EXCEPT !.timeoutFired = TRUE, !.aborted = TRUE], OnTimeout)]
  /\ UNCHANGED <<variant, env, event, pc, asin, response, extractVars, pageVars>>

ResEndAny ==
  \E i \in DOMAIN calls :
     \E body \in (IF calls[i].kind = "api" THEN ApiResponses ELSE ScrapeBodies) :
        ResEnd(i, body)

ReqErrorAny == \E i \in DOMAIN calls : ReqError(i)

ReqTimeoutAny == \E i \in DOMAIN calls : ReqTimeout(i)

Next == HandlerStart \/ HandlerResume \/ ResEndAny \/ ReqErrorAny \/ ReqTimeoutAny

Spec == Init /\ [][Next]_vars

\* ------------------------------------------------------ extractor harness

\* The pieces the URLs under test are assembled from.
T1 == <<"B","0","9","P","2","1","T","2","G","C">>
T2 == <<"b","0","0","0","x","y","z","1","2","3">>
Host == <<"h","t","t","p","s",":","/","/","a","m","a","z","o","n",".","c","o","m">>

Parts ==
  { <<"/","d","p","/">> \o T1,
    <<"/","d","p","/">> \o T2,
    <<"/","D","P","/">> \o T2,
    <<"/","p","r","o","d","u","c","t","/">> \o T1,
    <<"/","g","p","/","p","r","o","d","u","c","t","/">> \o T2,
    <<"?","a","s","i","n","=">> \o T1,
    <<"&","a","s","i","n","=">> \o T2,
    <<"/">> \o T1,
    <<"/">> \o T2,
    <<"/","r","e","f","=","x","y","z">>,
    <<"/","S","o","m","e","-","N","a","m","e">>,
    <<"?","t","a","g","=","x">>,
    <<"/","a","m","z","n",".","t","o","/","4","6","8","m","K","V","M">>,
    <<"/","d","p","/","B","0","9","P","2","1","T","2","G">> }

\* How many pieces follow the host in a URL under test.
MaxParts == 2

RECURSIVE Concat(_)
Concat(ps) == IF ps = <<>> THEN <<>> ELSE Head(ps) \o Concat(Tail(ps))

PartSeqs == UNION {[1..n -> Parts] : n \in 0..MaxParts}

InitExtract ==
  /\ xurl \in {Host \o Concat(ps) : ps \in PartSeqs}
  /\ xres = <<>>
  /\ xdone = FALSE
  /\ variant = "go"
  /\ env = [ACCESS_KEY |-> "", SECRET_KEY |-> "", PARTNER_TAG |-> ""]
  /\ event = [url |-> <<>>, path |-> <<>>]
  /\ pc = "idle"
  /\ asin = <<>>
  /\ calls = <<>>
  /\ response = NoResponse
  /\ browser = NoBrowser

ApplyExtract ==
  /\ ~xdone
  /\ xres' = extractASINFromURL(xurl)
  /\ xdone' = TRUE
  /\ UNCHANGED <<xurl, handlerVars, pageVars>>

NextExtract == ApplyExtract

SpecExtract == InitExtract /\ [][NextExtract]_vars

\* ------------------------------------------------------- the served page

\* The browser loads the page it was served and runs its script up to the
\* first timer: the countdown element shows the page's number, `countdown`
\* holds its initial value and setInterval(..., 1000) is armed. The
\* fallback page arms setTimeout(..., 2000) instead.
PageLoad ==
  /\ ~browser.loaded
  /\ response.body.kind \in {"product", "fallback"}
  /\ browser' = [browser EXCEPT
                   !.loaded = TRUE,
                   !.countdown = response.body.countdown,
                   !.text = response.body.shown,
                   !.timer = (response.body.kind = "product"),
                   !.fallback = (response.body.kind = "fallback")]
  /\ UNCHANGED <<handlerVars, extractVars>>

\* One firing of the setInterval callback, a second after the previous
\* one: countdown--, the element shows it, and at countdown <= 0 the timer
\* is cleared and the page navigates (part_000) or sends the gtag event
\* with its event_callback and arms the 250 ms setTimeout (go.js).
Tick ==
  /\ browser.loaded
  /\ browser.timer
  /\ browser.location = <<>>
  /\ LET c == browser.countdown - 1
     IN  browser' = [browser EXCEPT
                       !.countdown = c,
                       !.text = c,
                       !.elapsed = @ + 1,
                       !.timer = (c > 0),
                       !.callback = (c <= 0 /\ variant = "go"),
                       !.fallback = (c <= 0 /\ variant = "go"),
                       !.location = IF c <= 0 /\ variant # "go"
                                      THEN response.body.redirect ELSE <<>>]
  /\ UNCHANGED <<handlerVars, extractVars>>

\* gtag's event_callback: window.location.href = affiliateUrl.
GtagCallback ==
  /\ browser.callback
  /\ browser.location = <<>>
  /\ browser' = [browser EXCEPT !.callback = FALSE, !.location = response.body.redirect]
  /\ UNCHANGED <<handlerVars, extractVars>>

\* The setTimeout callback: window.location.href = affiliateUrl.
FallbackTimeout ==
  /\ browser.fallback
  /\ browser.location = <<>>
  /\ browser' = [browser EXCEPT !.fallback = FALSE, !.location = response.body.redirect]
  /\ UNCHANGED <<handlerVars, extractVars>>

\* The pages a handler serves for an ASIN: generateHTML of a record, and
\* generateFallbackHTML.
Served(v, e, a) ==
  { Respond(200, generateHTML(v, e, FallbackRecord(v, a), a)),
    Respond(200, generateHTML(v, e, [title |-> Widget, image |-> FallbackImage(v, a),
                                     price |-> <<"$","1","9",".","9","9">>, asin |-> a], a)),
    Respond(200, generateFallbackHTML(v, e, a)) }

\* A browser that has just been served a page by either variant.
InitPage ==
  /\ variant \in {"go", "part_000"}
  /\ env \in [ACCESS_KEY : {""}, SECRET_KEY : {""}, PARTNER_TAG : TagValues]
  /\ variant = "part_000" => env.PARTNER_TAG = <<>>
  /\ event = [url |-> <<>>, path |-> <<>>]
  /\ pc = "done"
  /\ asin \in {T1, T2}
  /\ calls = <<>>
  /\ response \in Served(variant, env, asin)
  /\ browser = NoBrowser
  /\ xurl = <<>>
  /\ xres = <<>>
  /\ xdone = FALSE

NextPage == PageLoad \/ Tick \/ GtagCallback \/ FallbackTimeout

SpecPage == InitPage /\ [][NextPage]_vars

\* ------------------------------------------------- claims on the extractor

\* The five URL shapes the specification lists, as text: the literal that
\* precedes the token, and whether the token must be followed by '/', '?'
\* or the end of the string (the bare /T shape).
ShapeOrder ==
  << [lit |-> <<"/","d","p","/">>, bare |-> FALSE],
     [lit |-> <<"/","p","r","o","d","u","c","t","/">>, bare |-> FALSE],
     [lit |-> <<"/","g","p","/","p","r","o","d","u","c","t","/">>, bare |-> FALSE],
     [lit |-> <<"a","s","i","n","=">>, bare |-> FALSE],
     [lit |-> <<"/">>, bare |-> TRUE] >>

Shapes == Range(ShapeOrder)

LowerOf(s) == [k \in DOMAIN s |-> ToLower(s[k])]

\* The tokens url embeds in shape sh: a valid 10-character token written
\* right after the shape's literal. With ci the literal's letters are
\* compared case-insensitively.
EmbeddedIn(url, sh, ci) ==
  LET n == Len(sh.lit)
  IN  { SubSeq(url, i + n, i + n + 9) :
          i \in { i \in 1..Len(url) :
                    /\ i + n + 9 <= Len(url)
                    /\ IF ci THEN LowerOf(SubSeq(url, i, i + n - 1)) = LowerOf(sh.lit)
                             ELSE SubSeq(url, i, i + n - 1) = sh.lit
                    /\ \A k \in 0..9 : IsAsinChar(url[i + n + k])
                    /\ sh.bare => (i + n + 9 = Len(url) \/ url[i + n + 10] \in {"/", "?"}) } }

Embedded(url, ci) == UNION {EmbeddedIn(url, sh, ci) : sh \in Shapes}

KnownShortLink == <<"a","m","z","n",".","t","o","/","4","6","8","m","K","V","M">>
KnownShortLinkAsin == <<"B","0","9","P","2","1","T","2","G","C">>

\* C7 as stated: for every valid token T that the URL embeds in one of the
\* five shapes, extractASINFromURL returns exactly T, whatever else the URL
\* contains.
C7_AnyEmbeddedTokenIsReturned ==
  xdone => \A T \in Embedded(xurl, FALSE) : xres = T

\* C7 amended: when the URL contains no known short link and T is the only
\* token it embeds in any of the five shapes (shape letters compared
\* case-insensitively), extractASINFromURL returns exactly T, same
\* characters and same case, whatever other text surrounds it. When it
\* embeds several tokens, a token of the earliest shape in the list order
\* is returned.
C7_OnlyEmbeddedTokenIsReturned ==
  (xdone /\ ~Includes(xurl, KnownShortLink)) =>
     /\ \A T \in Embedded(xurl, TRUE) : (Embedded(xurl, TRUE) = {T} => xres = T)
     /\ Embedded(xurl, TRUE) # {} =>
          LET k == Min({j \in DOMAIN ShapeOrder :
                          EmbeddedIn(xurl, ShapeOrder[j], TRUE) # {}})
          IN  xres \in EmbeddedIn(xurl, ShapeOrder[k], TRUE)

\* C7 witness: a lower-case token in the asin= shape, behind a noise
\* segment, has been extracted unchanged.
C7_Witness ==
  /\ xdone
  /\ xurl = Host \o <<"/","S","o","m","e","-","N","a","m","e">>
                 \o <<"&","a","s","i","n","=">> \o T2
  /\ Embedded(xurl, TRUE) = {T2}
  /\ xres = T2

\* C8: a URL that contains the substring amzn.to/468mKVM resolves to
\* B09P21T2GC, also when it embeds a different valid ASIN in one of the
\* pattern shapes.
C8_ShortLinkWins ==
  (xdone /\ Includes(xurl, KnownShortLink)) => xres = KnownShortLinkAsin

\* C8 witness: the short link and a different token in the /dp/ shape in
\* one URL, resolved to the short link's ASIN.
C8_Witness ==
  /\ xdone
  /\ Includes(xurl, KnownShortLink)
  /\ T2 \in EmbeddedIn(xurl, [lit |-> <<"/","d","p","/">>, bare |-> FALSE], FALSE)
  /\ xres = KnownShortLinkAsin /\ xres # T2

\* --------------------------------------------------- claims on the handler

\* Which callback settled a call. A timeout fires only before the other
\* two, and 'end' and 'error' exclude each other, so the flags tell.
SettledByTimeout(c) == c.timeoutFired
SettledByError(c) == c.errorFired /\ ~c.timeoutFired
SettledByEnd(c) == c.endFired /\ ~c.timeoutFired

\* What the url-parameter rule yields: it applies to a non-empty url
\* parameter that decodes.
UrlRuleAsin ==
  LET d == decodeURIComponent(event.url)
  IN  IF event.url # <<>> /\ d.ok THEN extractASINFromURL(d.value) ELSE <<>>

\* What the path rule yields: it applies when there is no url parameter.
PathRuleAsin ==
  IF event.url = <<>> /\ IsValidAsin(pathAsin(variant, event.path))
    THEN pathAsin(variant, event.path)
    ELSE <<>>

\* C1: once ASIN extraction has completed, the handler answers 404 exactly
\* when neither the url-parameter rule nor the path rule yields a valid
\* ASIN, and 200 in every other case, whatever the PA-API call and the
\* scrape ended in; it returns no other status code, and none before it is
\* done.
C1_StatusFollowsExtraction ==
  LET none == UrlRuleAsin = <<>> /\ PathRuleAsin = <<>>
  IN  /\ response.statusCode \in {0, 200, 404}
      /\ pc = "done" => response.statusCode = (IF none THEN 404 ELSE 200)
      /\ pc \in {"await_fetch", "await_scraping", "await_api", "await_fallback"} =>
           (response = NoResponse /\ ~none)

\* C1 witness: the PA-API call and the scrape both failed, and the answer
\* is 200 all the same.
C1_Witness ==
  /\ pc = "done"
  /\ Len(calls) = 2
  /\ calls[1].kind = "api" /\ calls[1].promise = "rejected"
  /\ calls[2].kind = "scrape" /\ calls[2].promise = "rejected"
  /\ response.statusCode = 200

\* C2 as stated: the handler never throws or rejects, whatever the url
\* query parameter holds.
C2_HandlerNeverThrows == pc # "threw"

\* C3 as stated: no scrape call ends in a rejection; timeouts and transport
\* errors are turned into the synthesized record.
C3_ScrapeNeverRejects ==
  \A i \in DOMAIN calls : calls[i].kind = "scrape" => calls[i].promise # "rejected"

\* C3 amended: a call that settles with a record settles with one whose
\* title and image are non-empty. A scrape call rejects on a timeout or a
\* transport error (in part_000 also when parsing the body throws) and on
\* nothing else, and the handler absorbs the rejection: after the last
\* rejected scrape it answers 200 with the fallback document.
C3_RecordsCompleteRejectionsAbsorbed ==
  /\ \A i \in DOMAIN calls :
       /\ calls[i].promise = "resolved" =>
            calls[i].value.title # <<>> /\ calls[i].value.image # <<>>
       /\ (calls[i].kind = "scrape" /\ calls[i].promise = "rejected") =>
            \/ SettledByTimeout(calls[i])
            \/ SettledByError(calls[i])
            \/ /\ variant = "part_000"
               /\ SettledByEnd(calls[i])
               /\ calls[i].received[1].parseThrows
  /\ (pc = "done" /\ calls # <<>>) =>
       /\ response.statusCode = 200
       /\ calls[Len(calls)].promise = "rejected" => response.body.kind = "fallback"
       /\ calls[Len(calls)].promise = "resolved" =>
            /\ response.body.kind = "product"
            /\ response.body.title # <<>>
            /\ response.body.image # <<>>

\* C3 witness: a scrape timed out, its promise rejected, and the handler
\* answered 200 with the fallback document.
C3_Witness ==
  /\ pc = "done"
  /\ calls # <<>>
  /\ calls[Len(calls)].kind = "scrape"
  /\ SettledByTimeout(calls[Len(calls)])
  /\ calls[Len(calls)].promise = "rejected"
  /\ response.statusCode = 200
  /\ response.body.kind = "fallback"

\* C4: in go.js, with ACCESS_KEY or SECRET_KEY absent, no PA-API request is
\* ever issued; the first request is the scrape, and the answer is 200.
C4_NoKeysNoApiCall ==
  (variant = "go" /\ (env.ACCESS_KEY = "" \/ env.SECRET_KEY = "")) =>
     /\ \A i \in DOMAIN calls : calls[i].kind = "scrape"
     /\ (pc # "start" /\ asin # <<>>) => calls # <<>>
     /\ (pc = "done" /\ asin # <<>>) => response.statusCode = 200

\* C4 witness: the access key is set, the secret key is not; the request
\* was served from a scrape.
C4_Witness ==
  /\ variant = "go"
  /\ env.ACCESS_KEY # "" /\ env.SECRET_KEY = ""
  /\ pc = "done"
  /\ Len(calls) = 1 /\ calls[1].kind = "scrape" /\ calls[1].promise = "resolved"
  /\ response.statusCode = 200

\* The failure conditions of the signed-API strategy, as listed: a network
\* error, a timeout, a non-2xx status, a body that is not JSON, a non-empty
\* Errors list, an InternalFailure marker.
ApiFailureCondition(c) ==
  \/ SettledByError(c)
  \/ SettledByTimeout(c)
  \/ /\ SettledByEnd(c)
     /\ \/ c.received[1].statusCode \notin 200..299
        \/ ~c.received[1].json
        \/ c.received[1].errors > 0
        \/ c.received[1].internalFailure

\* C5 as stated: each failure condition makes the PA-API call fail, no
\* record comes from it, the handler goes on to scrape and answers 200.
C5_ApiFailuresFallThrough ==
  \A i \in DOMAIN calls :
     (calls[i].kind = "api" /\ ApiFailureCondition(calls[i])) =>
        /\ calls[i].promise = "rejected"
        /\ pc = "done" => (Len(calls) > i /\ calls[i + 1].kind = "scrape"
                           /\ response.statusCode = 200)

\* A block page, as described: a body shorter than 1000 characters, or one
\* that contains 'Robot Check' or 'blocked'.
BlockPageAnswer(c) ==
  /\ c.kind = "scrape"
  /\ SettledByEnd(c)
  /\ (c.received[1].short \/ c.received[1].robotCheck \/ c.received[1].blocked)

IsSynthesized(c) ==
  /\ c.promise = "resolved"
  /\ c.value.title = GenericTitle(asin)
  /\ c.value.image = FallbackImage(variant, asin)
  /\ c.value.price = <<>>

GoPath == <<"/","g","o","/","B","0","9","P","2","1","T","2","G","C">>
RootPath == <<"/","B","0","9","P","2","1","T","2","G","C">>

\* C9 as stated: without a url parameter the path /go/B09P21T2GC yields
\* the ASIN B09P21T2GC, and a 200 answer, in each variant.
C9_GoPathYieldsAsin ==
  (event.url = <<>> /\ event.path = GoPath /\ pc # "start") =>
     /\ asin = KnownShortLinkAsin
     /\ pc = "done" => response.statusCode = 200

\* The text a variant's path rule strips, as the amended claim states it.
StrippedPrefix == IF variant = "go" THEN <<"/">> ELSE <<"/","g","o","/">>

\* The first segment after that prefix, when the path starts with it.
SegmentAfterPrefix ==
  LET n    == Len(StrippedPrefix)
      rest == SubSeq(event.path, n + 1, Len(event.path))
  IN  IF Len(event.path) < n \/ SubSeq(event.path, 1, n) # StrippedPrefix THEN <<>>
      ELSE IF \E k \in DOMAIN rest : rest[k] = "/"
        THEN SubSeq(rest, 1, (CHOOSE k \in DOMAIN rest :
                                 rest[k] = "/" /\ \A j \in 1..(k - 1) : rest[j] # "/") - 1)
        ELSE rest

\* C9 amended: without a url parameter, /go/B09P21T2GC yields B09P21T2GC
\* in part_000, and /B09P21T2GC yields it in go.js, where /go/B09P21T2GC
\* yields no ASIN and a 404. The path rule strips the variant's prefix ('/'
\* in go.js, '/go/' in part_000), takes the first remaining segment and
\* accepts it only if it is 10 characters matching the ASIN pattern.
C9_PathRulePerVariant ==
  (event.url = <<>> /\ pc # "start") =>
     /\ (variant = "part_000" /\ event.path = GoPath) => asin = KnownShortLinkAsin
     /\ (variant = "go" /\ event.path = RootPath) => asin = KnownShortLinkAsin
     /\ (variant = "go" /\ event.path = GoPath) =>
          (asin = <<>> /\ response.statusCode = 404)
     /\ asin = (IF Len(SegmentAfterPrefix) = 10
                   /\ \A k \in DOMAIN SegmentAfterPrefix : IsAsinChar(SegmentAfterPrefix[k])
                  THEN SegmentAfterPrefix ELSE <<>>)
     /\ pc = "done" => response.statusCode = (IF asin = <<>> THEN 404 ELSE 200)

\* C9 witness: part_000 served /go/B09P21T2GC with a 200.
C9_Witness ==
  /\ variant = "part_000"
  /\ event.url = <<>> /\ event.path = GoPath
  /\ pc = "done"
  /\ asin = KnownShortLinkAsin
  /\ response.statusCode = 200

\* C10: the affiliate link of every rendered page, product page or
\* fallback page, passed to extractASINFromURL, yields the ASIN the page
\* was rendered for, character for character.
C10_LinkRoundTrip ==
  response.body.kind \in {"product", "fallback"} =>
     /\ IsValidAsin(asin)
     /\ extractASINFromURL(response.body.link) = asin
     /\ extractASINFromURL(response.body.redirect) = asin

\* C10 witness: a product page rendered for a lower-case ASIN under a
\* configured partner tag, whose link yields that ASIN again.
C10_Witness ==
  /\ response.body.kind = "product"
  /\ asin = T2
  /\ env.PARTNER_TAG # <<>>
  /\ variant = "go"
  /\ extractASINFromURL(response.body.link) = T2

\* ^[A-Z0-9]{10}$ under the /i flag, stated on the character set itself.
StrictAsin(s) == Len(s) = 10 /\ \A k \in DOMAIN s : s[k] \in AsinChars

\* The candidate the applicable rule looks at when there is no url
\* parameter: the path segment.
PathCandidate == pathAsin(variant, event.path)

\* C11: the ASIN the handler holds once extraction has completed is either
\* null or exactly 10 characters of [A-Z0-9] (case-insensitively); every
\* outbound call is made for, every record is resolved for, and every
\* product or fallback page is built for such an ASIN; and a path candidate
\* that fails the pattern is rejected: no call is made and the answer is
\* the 404 page.
C11_AsinIsStrict ==
  /\ asin # <<>> => StrictAsin(asin)
  /\ calls # <<>> => StrictAsin(asin)
  /\ \A i \in DOMAIN calls :
        calls[i].promise = "resolved" =>
           (calls[i].value.asin = asin /\ StrictAsin(calls[i].value.asin))
  /\ response.body.kind \in {"product", "fallback"} =>
        /\ StrictAsin(asin)
        /\ response.body.link = affiliateUrl(asin, PARTNER_TAG(variant, env))
  /\ (pc \notin {"start", "threw"} /\ event.url = <<>> /\ ~StrictAsin(PathCandidate)) =>
        /\ asin = <<>>
        /\ calls = <<>>
        /\ response.statusCode = 404
        /\ response.body.kind = "error"

\* C11 witness: a path segment of nine ASIN characters was rejected with
\* the 404 page and without an outbound call.
C11_Witness ==
  /\ pc = "done"
  /\ event.url = <<>>
  /\ Len(PathCandidate) = 9
  /\ \A k \in DOMAIN PathCandidate : PathCandidate[k] \in AsinChars
  /\ calls = <<>>
  /\ response.statusCode = 404

\* The affiliate tag of the request: the PARTNER_TAG variable in go.js when
\* it is set, 'onelastlynx-20' otherwise.
AffiliateTag ==
  IF variant = "go" /\ env.PARTNER_TAG # <<>> THEN env.PARTNER_TAG
  ELSE <<"o","n","e","l","a","s","t","l","y","n","x","-","2","0">>

\* https://www.amazon.com/dp/<a>?tag=<affiliateTag>
AffiliateTarget(a) ==
  <<"h","t","t","p","s",":","/","/","w","w","w",".","a","m","a","z","o","n",".",
    "c","o","m","/","d","p","/">> \o a \o <<"?","t","a","g","=">> \o AffiliateTag

\* Every strategy the request attempted has rejected.
TotalFailure ==
  /\ calls # <<>>
  /\ \A i \in DOMAIN calls : calls[i].promise = "rejected"

\* C12: when every strategy attempted for a valid ASIN has rejected, the
\* handler answers 200 with Content-Type text/html and the fallback
\* document, whose link and whose script both target
\* https://www.amazon.com/dp/<asin>?tag=<affiliateTag>; and no answer on
\* any path carries a 3xx status.
C12_TotalFailureGivesFallbackPage ==
  /\ response.statusCode \notin 300..399
  /\ (pc = "done" /\ TotalFailure) =>
        /\ StrictAsin(asin)
        /\ response.statusCode = 200
        /\ response.contentType = "text/html"
        /\ response.body.kind = "fallback"
        /\ response.body.link = AffiliateTarget(asin)
        /\ response.body.redirect = AffiliateTarget(asin)
  /\ response.body.kind = "fallback" => TotalFailure

\* C12 witness: in go.js with credentials the PA-API call and the scrape
\* both rejected, and the fallback document was served with a 200.
C12_Witness ==
  /\ variant = "go"
  /\ pc = "done"
  /\ Len(calls) = 2
  /\ calls[1].kind = "api" /\ calls[1].promise = "rejected"
  /\ calls[2].kind = "scrape" /\ calls[2].promise = "rejected"
  /\ response.statusCode = 200
  /\ response.body.kind = "fallback"
  /\ response.body.redirect = AffiliateTarget(asin)

\* An outbound request is in flight until its response has ended, its
\* transport has failed, or it has been aborted.
InFlight(c) == ~c.endFired /\ ~c.errorFired /\ ~c.aborted

\* C13: the outbound calls of one request form a sequential chain. At most
\* one outbound request is in flight at any time; a call is started only
\* when every earlier call has settled as failed and is no longer in
\* flight; where a PA-API call was made it is the first call and every
\* scrape follows its rejection; and a call whose timeout has fired is
\* aborted, so it is aborted before the next strategy starts.
C13_CallsAreSequential ==
  /\ Cardinality({i \in DOMAIN calls : InFlight(calls[i])}) <= 1
  /\ \A i, j \in DOMAIN calls :
        i < j => (calls[i].promise = "rejected" /\ ~InFlight(calls[i]))
  /\ \A i, j \in DOMAIN calls :
        (calls[i].kind = "api" /\ calls[j].kind = "scrape") =>
           (i = 1 /\ i < j /\ calls[i].promise = "rejected")
  /\ \A i \in DOMAIN calls : calls[i].timeoutFired => calls[i].aborted
  /\ (pc \in {"await_fetch", "await_scraping", "await_api", "await_fallback"}
        /\ InFlight(calls[Len(calls)])) => calls[Len(calls)].promise = "pending"

\* C13 witness: the PA-API call timed out and was aborted, and the scrape
\* that followed it is the one request in flight.
C13_Witness ==
  /\ Len(calls) = 2
  /\ calls[1].kind = "api"
  /\ calls[1].timeoutFired /\ calls[1].aborted /\ calls[1].promise = "rejected"
  /\ calls[2].kind = "scrape"
  /\ InFlight(calls[2])
  /\ pc = "await_fallback"

\* The scrape attempts of the request, in the order they were started.
ScrapeCalls == {i \in DOMAIN calls : calls[i].kind = "scrape"}

\* A scrape attempt that completed with only the placeholder title
\* 'Amazon Product <ASIN>' or without a scraped image.
CompletedGeneric(c) ==
  /\ c.kind = "scrape"
  /\ c.promise = "resolved"
  /\ (c.value.title = GenericTitle(asin) \/ c.value.image = FallbackImage(variant, asin))

\* C14 as stated: when the first scrape attempt of a request completes
\* with a generic record, exactly one more scrape attempt follows it, the
\* page is rendered from the record of that second attempt, and no third
\* attempt is made.
C14_GenericScrapeIsRetriedOnce ==
  (pc = "done" /\ ScrapeCalls # {} /\ CompletedGeneric(calls[Min(ScrapeCalls)])) =>
     /\ Cardinality(ScrapeCalls) = 2
     /\ LET second == CHOOSE j \in ScrapeCalls : j # Min(ScrapeCalls)
        IN  /\ calls[second].promise = "resolved"
            /\ response.body.title = calls[second].value.title
            /\ response.body.image = calls[second].value.image

\* The size a key's token states: the <n> of _SX<n>_, else the <n> of
\* <n>x<m>, else 0.
KeySize(a) ==
  IF MatchSX(a) # <<>> THEN DigitsValue(MatchSX(a)[2], 1, Len(MatchSX(a)[2]), 10)
  ELSE IF MatchWxH(a) # <<>> THEN DigitsValue(MatchWxH(a)[2], 1, Len(MatchWxH(a)[2]), 10)
  ELSE 0

\* The scrape answers of go.js whose image attribute is a dynamic-image blob.
BlobAnswers ==
  {i \in DOMAIN calls :
     /\ variant = "go"
     /\ calls[i].kind = "scrape"
     /\ calls[i].endFired
     /\ calls[i].received[1].dynamicImage # <<>>}

\* C15 as stated: for a dynamic-image blob, in whatever order its keys
\* come, the URL taken before the suffix rewriting is a key of the largest
\* size among the keys.
C15_LargestKeyIsChosen ==
  \A i \in BlobAnswers :
     LET keys == calls[i].received[1].dynamicImage
     IN  \A k \in DOMAIN keys : KeySize(DynamicChoice(keys)) >= KeySize(keys[k])

\* --------------------------------------------------- claims on the page

\* C16 as stated: the countdown of a product page starts at the number of
\* seconds the page shows (3), goes down by one per one-second tick, and
\* at 0 the timer stops and the page navigates to
\* https://www.amazon.com/dp/<ASIN>?tag=<affiliateTag>; so the navigation
\* comes after the shown number of seconds, in both variants.
C16_CountdownStartsAtShownNumber ==
  (browser.loaded /\ response.body.kind = "product") =>
     /\ browser.countdown + browser.elapsed = response.body.shown
     /\ browser.text = browser.countdown
     /\ browser.location # <<>> =>
          /\ browser.elapsed = response.body.shown
          /\ ~browser.timer
          /\ browser.location = AffiliateTarget(asin)

\* ------------------------------------------------ claims on the handler

\* C17 as stated: in go.js the scrape of the catch block ('API failed,
\* attempting scraping fallback') is awaited, or has been made, only in a
\* request whose PA-API call was issued and rejected.
C17_CatchScrapeOnlyAfterApiFailure ==
  (variant = "go" /\ (pc = "await_fallback" \/ Len(calls) >= 2)) =>
     \E i \in DOMAIN calls : calls[i].kind = "api" /\ calls[i].promise = "rejected"

\* What the first callback of call c to fire settles its promise with, a
\* pending promise while none has fired. The timeout fires first or not at
\* all; an 'end' or 'error' without a timeout is the only callback of the
\* call.
FirstOutcome(c) ==
  IF SettledByTimeout(c) THEN OnTimeout
  ELSE IF SettledByError(c) THEN OnError
  ELSE IF SettledByEnd(c) THEN OnEnd(variant, c.kind, c.received[1], asin)
  ELSE [state |-> "pending", value |-> NoRecord]

\* The promise of every call is pending until its first callback, and
\* carries that callback's outcome from then on, whichever callbacks
\* followed; the handler's progress rests on those outcomes alone.
OutcomeIsFirstCallbacks ==
  \A out \in {[i \in DOMAIN calls |-> FirstOutcome(calls[i])]}, last \in {Len(calls)} :
      /\ \A i \in DOMAIN calls :
            /\ calls[i].promise = out[i].state
            /\ calls[i].value = out[i].value
            /\ i < last => out[i] = Rejected
      /\ response.body.kind = "product" =>
            /\ out[last].state = "resolved"
            /\ response.body.title = out[last].value.title
            /\ response.body.image = out[last].value.image
      /\ response.body.kind = "fallback" => out[last] = Rejected

\* A settled promise keeps its state and its value in every step, and a
\* callback of a settled call moves neither the handler nor its answer.
SettledStaysSettled ==
  \A i \in DOMAIN calls :
     calls[i].promise # "pending" =>
        /\ calls'[i].promise = calls[i].promise
        /\ calls'[i].value = calls[i].value
        /\ calls'[i] # calls[i] => (pc' = pc /\ response' = response /\ Len(calls') = Len(calls))

\* C18: under every interleaving of the 'end', 'error' and timeout
\* callbacks of a call (an 'error' raised by the abort of the timeout and
\* a late 'end' after a timeout included), its promise settles exactly
\* once, with the outcome of the first callback to fire, and later
\* callbacks change neither that outcome nor what the handler does next.
C18_SettlesOnceWithFirstOutcome ==
  [](OutcomeIsFirstCallbacks) /\ [][SettledStaysSettled]_vars

\* C18 witness: the PA-API call timed out, its 'error' and a late 'end'
\* with a usable answer followed, the promise stayed rejected and the
\* handler went on to the scrape.
C18_Witness ==
  /\ Len(calls) = 2
  /\ calls[1].kind = "api"
  /\ calls[1].timeoutFired /\ calls[1].endFired
  /\ ApiOnEnd(calls[1].received[1], asin).state = "resolved"
  /\ calls[1].promise = "rejected"
  /\ calls[2].kind = "scrape"

\* The PA-API requests of the request.
ApiCalls == {i \in DOMAIN calls : calls[i].kind = "api"}

\* C19: on every path of one request go.js issues at most two outbound
\* requests, at most one of them to the PA-API, and part_000 issues at most
\* one outbound request.
C19_OutboundRequestsAreBounded ==
  /\ variant = "go" => (Len(calls) <= 2 /\ Cardinality(ApiCalls) <= 1)
  /\ variant = "part_000" => (Len(calls) <= 1 /\ ApiCalls = {})

\* C19 witness: go.js answered after two outbound requests, one of them
\* to the PA-API, both of which failed.
C19_Witness ==
  /\ variant = "go"
  /\ pc = "done"
  /\ Len(calls) = 2
  /\ Cardinality(ApiCalls) = 1
  /\ calls[2].promise = "rejected"

\* C20 as stated: with a non-empty url parameter the path is never
\* consulted: the handler's ASIN is what the url parameter yields, and when
\* that is no valid ASIN the answer is 404, whatever the path holds; the
\* path rule applies only without a url parameter.
C20_UrlParameterShadowsPath ==
  /\ (event.url # <<>> /\ pc # "start") =>
        /\ asin = UrlRuleAsin
        /\ UrlRuleAsin = <<>> => (pc = "done" /\ response.statusCode = 404)
  /\ (event.url = <<>> /\ pc # "start") => asin = PathRuleAsin

\* A PA-API call of go.js answered, before any timeout or transport error,
\* with a body that parses as JSON and carries neither an Errors list nor
\* an InternalFailure marker.
CleanApiAnswer(c) ==
  /\ variant = "go"
  /\ c.kind = "api"
  /\ SettledByEnd(c)
  /\ c.received[1].json
  /\ c.received[1].errors = 0
  /\ ~c.received[1].internalFailure

\* C21: in go.js a PA-API answer that parses as JSON without an Errors
\* list and without an InternalFailure marker makes the API strategy
\* succeed: the promise resolves, no scrape is made in that request, and
\* the page is rendered from the parsed record; when the answer has no
\* items that record is the title 'Amazon Product <ASIN>', the ASIN-derived
\* image and an empty price.
C21_CleanApiAnswerEndsTheChain ==
  \A i \in DOMAIN calls :
     CleanApiAnswer(calls[i]) =>
        /\ calls[i].promise = "resolved"
        /\ Len(calls) = 1
        /\ ScrapeCalls = {}
        /\ ~calls[i].received[1].item.present =>
              /\ calls[i].value.title = GenericTitle(asin)
              /\ calls[i].value.image = FallbackImage("go", asin)
              /\ calls[i].value.price = <<>>
        /\ pc = "done" =>
              /\ response.statusCode = 200
              /\ response.body.kind = "product"
              /\ response.body.title = calls[i].value.title
              /\ response.body.image = calls[i].value.image
              /\ response.body.price = calls[i].value.price

\* C21 witness: the PA-API answered without items, and the page was
\* rendered from the synthesized record without a scrape.
C21_Witness ==
  /\ pc = "done"
  /\ Len(calls) = 1
  /\ CleanApiAnswer(calls[1])
  /\ ~calls[1].received[1].item.present
  /\ response.body.kind = "product"
  /\ response.body.title = GenericTitle(asin)

\* ------------------------------------------------------------ termination

\* The first callback of an outbound call: its response ends, its request
\* fails, or its timeout fires, whichever comes first.
FirstCallback ==
  \E i \in DOMAIN calls :
     /\ ~calls[i].endFired /\ ~calls[i].errorFired /\ ~calls[i].timeoutFired
     /\ \/ \E body \in (IF calls[i].kind = "api" THEN ApiResponses ELSE ScrapeBodies) :
              ResEnd(i, body)
        \/ ReqError(i)
        \/ ReqTimeout(i)

\* The requests followed to their end: a path with an ASIN, a path
\* without one and a url parameter that does not decode, with both
\* credentials set or neither.
InitFair ==
  /\ Init
  /\ env.PARTNER_TAG = <<>>
  /\ env.ACCESS_KEY = env.SECRET_KEY
  /\ event \in { [url |-> <<>>, path |-> <<"/","B","0","9","P","2","1","T","2","G","C">>],
                 [url |-> <<>>, path |-> <<"/","g","o","/","B","0","9","P","2","1","T","2","G","C">>],
                 [url |-> <<>>, path |-> <<"/">>],
                 [url |-> <<"1","0","0","%">>,
                  path |-> <<"/","B","0","9","P","2","1","T","2","G","C">>] }

\* The handler under the scheduling the runtime gives it: the function
\* runs once invoked and resumes once the awaited promise has settled, and
\* every outbound call fires a first callback (its req.setTimeout fires if
\* nothing else does).
SpecFair ==
  /\ InitFair
  /\ [][Next]_vars
  /\ WF_vars(HandlerStart)
  /\ WF_vars(HandlerResume)
  /\ WF_vars(FirstCallback)

\* C22 as stated: given that every outbound call fires one of its
\* callbacks, every request eventually returns a response, the rendered
\* page with a 200 or the 404 page.
C22_EveryRequestIsAnswered ==
  <>(pc = "done" /\ response.statusCode \in {200, 404}
       /\ response.body.kind \in {"product", "fallback", "error"})

====
